---- MODULE Spec2Model ----
(***************************************************************************)
(* Model of feetball/oceans-and-seas:                                      *)
(*   - the tsunami playback clock (TsunamiPlaybackManager): the            *)
(*     singleton's PlaybackState, its interval timer, its subscriber set   *)
(*     and its transport controls;                                         *)
(*   - the tsunami classifiers of the page and of the /api/buoys route;    *)
(*   - the status cache of BuoyCacheManager and the route's refresh of it; *)
(*   - the data cache of BuoyCacheManager and GET /api/buoys;              *)
(*   - the wave front and buoy markers drawn by the map;                   *)
(*   - the simulated readings of generateTsunamiReadings.                  *)
(*                                                                         *)
(* Number representation.  JavaScript numbers are modelled exactly, as     *)
(* integers in fixed units:                                                *)
(*   - wall-clock readings (Date.now()) are integers in milliseconds;      *)
(*   - playback speeds are stored in quarters (0.25x = 1, 1x = 4, 16x = 64)*)
(*   - simulation times are stored in units of 1/4000 minute, so           *)
(*     (deltaMs / 1000) * speed minutes = deltaMs * speedInQuarters units; *)
(*   - progress, a quotient, is a reduced fraction <<num, den>>.           *)
(* Floating-point rounding is not modelled.  The simulated readings use    *)
(* fixed-point numbers with four decimals, see there.                      *)
(***************************************************************************)
EXTENDS Integers, Sequences, FiniteSets, TLC

VARIABLES
    state,           \* this.state : TsunamiPlaybackState
    intervalId,      \* this.intervalId : timer handle or NULL
    callbacks,       \* this.callbacks : insertion-ordered Set, as a sequence
    lastUpdateTime,  \* this.lastUpdateTime (ms)
    timers,          \* the runtime's live interval timers (setInterval/clearInterval)
    now,             \* the wall clock, Date.now() (ms)
    log,             \* snapshots delivered to subscribers by the last handler
    lastOp,          \* history: name of the last step (a handler, or "clock")
    lastArg,         \* history: its argument (0 when it takes none)
    tickBase,        \* history: wall time of the last timer creation or tick
    pre,             \* history: play/pause flags and timer status before the last handler
    advances,        \* number of wall-clock advances so far (bounded)
    readings,        \* buoy.readings of the buoy under classification
    verdict,         \* what the classifier last returned for it, and which one
    statusCache,     \* BuoyCacheManager.statusCache : a reference, or NULL
    lastStatusCacheUpdate,  \* BuoyCacheManager.lastStatusCacheUpdate (ms)
    heap,            \* the BuoyStatusCache objects alive, by reference
    microtasks,      \* the runtime's microtask queue: suspended updateBuoyStatus calls
    streak,          \* history: per buoy, its run of consecutive alert updates
    cacheOp,         \* history: the last step of the cache manager and its buoy
    refreshes,       \* number of status refreshes so far (bounded)
    memoryCache,     \* BuoyCacheManager.memoryCache : the data set cached, or NULL
    lastMemoryCacheUpdate,  \* BuoyCacheManager.lastMemoryCacheUpdate (ms)
    fetching,        \* GET /api/buoys requests awaiting their fetch
    fetches,         \* data sets fetched so far (bounded); the k-th one is data set k
    response,        \* what GET /api/buoys last responded
    dataWrite,       \* history: the last setBuoyData since the last clearCache
    statusWrite,     \* history: the last setBuoyStatus since the last clearCache
    buoyDistance,    \* the map's buoy: its great-circle distance from the epicentre (km)
    marker,          \* what the map last drew: the wave front and the buoy's popup
    scenario,        \* the arguments of generateTsunamiReadings
    tsunamiReadings, \* the series it returned
    closestReading   \* the reading picked from the series, and for which time

playbackVars == <<state, intervalId, callbacks, lastUpdateTime, timers, now, log,
                  lastOp, lastArg, tickBase, pre, advances>>
classifierVars == <<readings, verdict>>
cacheVars == <<statusCache, lastStatusCacheUpdate, heap, microtasks, streak,
               cacheOp, refreshes>>

requestVars == <<fetching, fetches, response, dataWrite>>
dataVars == <<memoryCache, lastMemoryCacheUpdate, statusWrite, requestVars>>

waveVars == <<buoyDistance, marker, scenario, tsunamiReadings, closestReading>>

vars == <<playbackVars, classifierVars, cacheVars, dataVars, waveVars>>

(***************************************************************************)
(* Bounds of the model.                                                    *)
(***************************************************************************)
MaxAdvances == 2        \* wall-clock advances explored
StartNow == 1000        \* Date.now() when the module is loaded (ms)

(***************************************************************************)
(* Units.                                                                  *)
(***************************************************************************)
MS_PER_SECOND == 1000
SPEED_SCALE == 4
UnitsPerMinute == MS_PER_SECOND * SPEED_SCALE

Minutes(n) == n * UnitsPerMinute
Speed(num, den) == (num * SPEED_SCALE) \div den

Min(a, b) == IF a <= b THEN a ELSE b
Max(a, b) == IF a >= b THEN a ELSE b

\* Euclid's algorithm (a function, so that its arguments are values)
Gcd[a \in Nat, b \in Nat] == IF b = 0 THEN a ELSE Gcd[b, a % b]

Abs(a) == IF a < 0 THEN -a ELSE a

\* the rational n/d (d # 0) in lowest terms, denominator positive
Rat(n, d) ==
    LET g == Gcd[Abs(n), Abs(d)]
        s == IF d < 0 THEN -1 ELSE 1
    IN  <<(s * n) \div g, (s * d) \div g>>

RatDiv(a, b) == Rat(a, b)
RatTimes(r, k) == Rat(r[1] * k, r[2])

\* the element of a singleton.  The({e(x) : x \in {v}}) is e(v) with v
\* evaluated once, however often e uses it (call by value)
The(S) == CHOOSE r \in S : TRUE

NULL == 0
UNDEFINED == "undefined"

(***************************************************************************)
(* Program constants.                                                      *)
(***************************************************************************)
TOTAL_DURATION_MINUTES == 240

PLAYBACK_SPEEDS ==
    <<Speed(1, 4), Speed(1, 2), Speed(1, 1), Speed(2, 1), Speed(4, 1),
      Speed(8, 1), Speed(16, 1)>>

DEFAULT_PLAYBACK_STATE ==
    [ isPlaying     |-> FALSE,
      isPaused      |-> FALSE,
      currentTime   |-> 0,
      totalDuration |-> Minutes(TOTAL_DURATION_MINUTES),
      playbackSpeed |-> Speed(1, 1),
      currentEvent  |-> "tohoku_2011",
      progress      |-> <<0, 1>> ]

events == <<"tohoku_2011", "alaska_2020", "chile_2015">>

\* Array.prototype.includes
includes(arr, x) == \E i \in 1..Len(arr) : arr[i] = x

\* Array.prototype.indexOf, 0-based, -1 when absent
indexOf(arr, x) ==
    IF includes(arr, x)
    THEN (CHOOSE i \in 1..Len(arr) :
            arr[i] = x /\ \A j \in 1..(i - 1) : arr[j] # x) - 1
    ELSE -1

\* arr[i] with a 0-based index; undefined outside the array
at(arr, i) == IF i >= 0 /\ i < Len(arr) THEN arr[i + 1] ELSE UNDEFINED

(***************************************************************************)
(* The manager object.  Every method is an operator from the manager (and  *)
(* the clock reading it takes) to the manager after the call.              *)
(***************************************************************************)
Mgr ==
    [ state          |-> state,
      intervalId     |-> intervalId,
      callbacks      |-> callbacks,
      lastUpdateTime |-> lastUpdateTime,
      timers         |-> timers,
      log            |-> <<>> ]

\* { ...this.state, ...updates }
spread(s, updates) ==
    [k \in DOMAIN s |-> IF k \in DOMAIN updates THEN updates[k] ELSE s[k]]

\* callbacks.add / callbacks.delete on an insertion-ordered Set
subscribe(m, cb) ==
    IF includes(m.callbacks, cb) THEN m
    ELSE [m EXCEPT !.callbacks = Append(m.callbacks, cb)]

unsubscribe(m, cb) ==
    [m EXCEPT !.callbacks = SelectSeq(m.callbacks, LAMBDA c : c # cb)]

\* The subscribers' own code: the callback whose unsubscribe function a
\* callback calls when it is invoked.  The application's subscribers, the
\* control panel's and the map's React state setters, call none; "once"
\* calls its own and "evictor" calls the panel's.
unsubscribesOnNotify(cb) ==
    CASE cb = "once"    -> "once"
      [] cb = "evictor" -> "panel"
      [] OTHER          -> UNDEFINED

\* callback({ ...this.state }), and what the callback does in turn
invoke(m0, cb) ==
    The({ IF unsubscribesOnNotify(cb) = UNDEFINED THEN m
          ELSE unsubscribe(m, unsubscribesOnNotify(cb))
          : m \in {[m0 EXCEPT !.log = Append(@, [to |-> cb, snap |-> m0.state])]} })

\* variant: an index-based loop over the live array of callbacks
RECURSIVE forIndex(_, _)
forIndex(m0, i) ==
    The({ IF i > Len(m.callbacks) THEN m
          ELSE forIndex(invoke(m, m.callbacks[i]), i + 1)
          : m \in {m0} })

notifyCallbacks_indexed(m0) == forIndex(m0, 1)

\* Set.prototype.forEach: the entries are visited in insertion order, and an
\* entry deleted before its turn is not visited
RECURSIVE forEach(_, _)
forEach(m0, pending0) ==
    The({ IF pending = <<>> THEN m
          ELSE IF includes(m.callbacks, Head(pending))
               THEN forEach(invoke(m, Head(pending)), Tail(pending))
               ELSE forEach(m, Tail(pending))
          : m \in {m0}, pending \in {pending0} })

\* this.callbacks.forEach(callback => callback({ ...this.state }))
notifyCallbacks(m0) == The({ forEach(m, m.callbacks) : m \in {m0} })

\* variant: the subscribers are notified before the updates are merged
updateState_notifyFirst(m, updates) ==
    LET n == notifyCallbacks(m)
    IN  [n EXCEPT !.state = [spread(@, updates) EXCEPT !.progress =
              RatTimes(RatDiv(spread(m.state, updates).currentTime,
                              m.state.totalDuration), 100)]]

\* variant: progress derived from the state before the updates are merged
updateState_staleProgress(m, updates) ==
    LET merged == spread(m.state, updates)
        s2     == [merged EXCEPT !.progress =
                      RatTimes(RatDiv(m.state.currentTime, m.state.totalDuration), 100)]
    IN  [m EXCEPT !.state = s2,
                  !.log = m.log \o [i \in 1..Len(m.callbacks) |->
                                      [to |-> m.callbacks[i], snap |-> s2]]]

progressOf(s) == RatTimes(RatDiv(s.currentTime, s.totalDuration), 100)

withProgress(s0) == The({ [s EXCEPT !.progress = progressOf(s)] : s \in {s0} })

updateState(m, updates) ==
    notifyCallbacks([m EXCEPT !.state = withProgress(spread(@, updates))])

\* setInterval: a fresh handle, never NULL
newTimer(live) == CHOOSE id \in 1..(Cardinality(live) + 1) : id \notin live

\* variant: the elapsed-time baseline is not reset when the timer is created
startPlayback_keepsBaseline(m, t) ==
    IF m.intervalId # NULL THEN m
    ELSE LET id == newTimer(m.timers)
         IN  [m EXCEPT !.intervalId = id, !.timers = m.timers \cup {id}]

startPlayback(m0, t) ==
    The({ IF m.intervalId # NULL THEN m
          ELSE LET id == newTimer(m.timers)
               IN  [m EXCEPT !.lastUpdateTime = t,
                             !.intervalId = id,
                             !.timers = m.timers \cup {id}]
          : m \in {m0} })

stopPlayback(m0) ==
    The({ IF m.intervalId # NULL
          THEN [m EXCEPT !.timers = m.timers \ {m.intervalId}, !.intervalId = NULL]
          ELSE m
          : m \in {m0} })

\* variant: the end-of-horizon branch does not clamp newTime
intervalCallback_noClamp(m, t) ==
    IF ~m.state.isPlaying THEN m
    ELSE LET deltaTime       == t - m.lastUpdateTime
             m1              == [m EXCEPT !.lastUpdateTime = t]
             simulationDelta == deltaTime * m1.state.playbackSpeed
             newTime         == m1.state.currentTime + simulationDelta
         IN  IF newTime >= m1.state.totalDuration
             THEN updateState(
                    stopPlayback(
                      updateState(m1, [isPlaying |-> FALSE, isPaused |-> TRUE])),
                    [currentTime |-> newTime])
             ELSE updateState(m1, [currentTime |-> newTime])

\* variant: the end-of-horizon branch clears isPlaying but does not set isPaused
intervalCallback_notPaused(m, t) ==
    IF ~m.state.isPlaying THEN m
    ELSE LET deltaTime       == t - m.lastUpdateTime
             m1              == [m EXCEPT !.lastUpdateTime = t]
             simulationDelta == deltaTime * m1.state.playbackSpeed
             newTime         == m1.state.currentTime + simulationDelta
         IN  IF newTime >= m1.state.totalDuration
             THEN updateState(
                    stopPlayback(updateState(m1, [isPlaying |-> FALSE])),
                    [currentTime |-> m1.state.totalDuration])
             ELSE updateState(m1, [currentTime |-> newTime])

\* the setInterval callback, run at wall time t
intervalCallback(m, t) ==
    IF ~m.state.isPlaying THEN m
    ELSE LET deltaTime       == t - m.lastUpdateTime
             m1              == [m EXCEPT !.lastUpdateTime = t]
             simulationDelta == deltaTime * m1.state.playbackSpeed
             newTime         == m1.state.currentTime + simulationDelta
         IN  IF newTime >= m1.state.totalDuration
             THEN updateState(
                    stopPlayback(
                      updateState(m1, [isPlaying |-> FALSE, isPaused |-> TRUE])),
                    [currentTime |-> m1.state.totalDuration])
             ELSE updateState(m1, [currentTime |-> newTime])

\* variant: play() sets isPlaying and leaves isPaused as it was
play_keepsPaused(m, t) ==
    LET m1 == IF m.state.currentTime >= m.state.totalDuration
              THEN updateState(m, [currentTime |-> 0])
              ELSE m
    IN  startPlayback(updateState(m1, [isPlaying |-> TRUE]), t)

play(m, t) ==
    LET m1 == IF m.state.currentTime >= m.state.totalDuration
              THEN updateState(m, [currentTime |-> 0])
              ELSE m
    IN  startPlayback(updateState(m1, [isPlaying |-> TRUE, isPaused |-> FALSE]), t)

\* variant: pause() that toggles isPaused instead of setting it
pause_togglesPaused(m) ==
    stopPlayback(updateState(m, [isPlaying |-> FALSE, isPaused |-> ~m.state.isPaused]))

pause(m) ==
    stopPlayback(updateState(m, [isPlaying |-> FALSE, isPaused |-> TRUE]))

\* variant: stop() that behaves like pause() with isPaused cleared
stop_keepsTime(m) ==
    stopPlayback(updateState(m, [isPlaying |-> FALSE, isPaused |-> FALSE]))

stop(m) ==
    stopPlayback(updateState(m,
        [isPlaying |-> FALSE, isPaused |-> FALSE, currentTime |-> 0]))

restart(m, t) ==
    startPlayback(updateState(m,
        [isPlaying |-> TRUE, isPaused |-> FALSE, currentTime |-> 0]), t)

\* variant: the speed is adopted without the membership test
setSpeed_unchecked(m, speed) == updateState(m, [playbackSpeed |-> speed])

setSpeed(m, speed) ==
    LET validSpeed == IF includes(PLAYBACK_SPEEDS, speed) THEN speed ELSE Speed(1, 1)
    IN  updateState(m, [playbackSpeed |-> validSpeed])

\* variant: only the lower clamp is applied
seekTo_noUpperClamp(m, time) == updateState(m, [currentTime |-> Max(0, time)])

seekTo(m, time) ==
    LET clampedTime == Max(0, Min(time, m.state.totalDuration))
    IN  updateState(m, [currentTime |-> clampedTime])

\* progress is a whole percentage here; (p / 100) * totalDuration is exact
seekToProgress(m, progress) ==
    LET clampedProgress == Max(0, Min(progress, 100))
        time            == (clampedProgress * m.state.totalDuration) \div 100
    IN  updateState(m, [currentTime |-> time])

\* variant: the event switch leaves the timer running
nextEvent_noStop(m) ==
    LET currentIndex == indexOf(events, m.state.currentEvent)
        nextIndex    == (currentIndex + 1) % Len(events)
    IN  updateState(m,
            [currentEvent |-> at(events, nextIndex), currentTime |-> 0,
             isPlaying |-> FALSE, isPaused |-> FALSE])

\* variant: the index saturates at the last catalog entry instead of wrapping
nextEvent_noWrap(m) ==
    LET currentIndex == indexOf(events, m.state.currentEvent)
        nextIndex    == Min(currentIndex + 1, Len(events) - 1)
    IN  stopPlayback(updateState(m,
            [currentEvent |-> at(events, nextIndex), currentTime |-> 0,
             isPlaying |-> FALSE, isPaused |-> FALSE]))

nextEvent(m) ==
    LET currentIndex == indexOf(events, m.state.currentEvent)
        nextIndex    == (currentIndex + 1) % Len(events)
    IN  stopPlayback(updateState(m,
            [currentEvent |-> at(events, nextIndex), currentTime |-> 0,
             isPlaying |-> FALSE, isPaused |-> FALSE]))

previousEvent(m) ==
    LET currentIndex == indexOf(events, m.state.currentEvent)
        prevIndex    == IF currentIndex = 0 THEN Len(events) - 1 ELSE currentIndex - 1
    IN  stopPlayback(updateState(m,
            [currentEvent |-> at(events, prevIndex), currentTime |-> 0,
             isPlaying |-> FALSE, isPaused |-> FALSE]))

setEvent(m, eventId) ==
    stopPlayback(updateState(m,
        [currentEvent |-> eventId, currentTime |-> 0,
         isPlaying |-> FALSE, isPaused |-> FALSE]))

getState(m) == m.state

\* cleanup(): stopPlayback() and callbacks.clear(); the state is not touched
cleanup(m) == [stopPlayback(m) EXCEPT !.callbacks = <<>>]

(***************************************************************************)
(* Dates.  A Date's time value (ms since 1970-01-01T00:00:00Z) is kept as  *)
(* <<day number, ms within the day>>, which is exact and stays in range.   *)
(***************************************************************************)
MS_PER_DAY == 86400000
MS_PER_MINUTE == 60000

\* days from 1970-01-01 to y-mo-d in the proleptic Gregorian calendar
DaysFromCivil(y, mo, d) ==
    LET yy  == IF mo <= 2 THEN y - 1 ELSE y
        era == yy \div 400
        yoe == yy - era * 400
        mp  == IF mo > 2 THEN mo - 3 ELSE mo + 9
        doy == (153 * mp + 2) \div 5 + d - 1
        doe == yoe * 365 + yoe \div 4 - yoe \div 100 + doy
    IN  era * 146097 + doe - 719468

\* new Date('YYYY-MM-DDThh:mm:ssZ'), the literal given by its six fields
DateUTC(iso) ==
    <<DaysFromCivil(iso[1], iso[2], iso[3]),
      ((iso[4] * 60 + iso[5]) * 60 + iso[6]) * MS_PER_SECOND>>

\* new Date(date.getTime() + ms)
DatePlus(date, ms) ==
    <<date[1] + (date[2] + ms) \div MS_PER_DAY, (date[2] + ms) % MS_PER_DAY>>

\* a simulation time (in model units) in milliseconds: currentTime * 60 * 1000
SimulationMs(time) == time * (MS_PER_MINUTE \div UnitsPerMinute)

\* the table of event start times inside getCurrentTimestamp
eventStartTimes ==
    [ tohoku_2011 |-> DateUTC(<<2011, 3, 11, 5, 46, 23>>),
      alaska_2020 |-> DateUTC(<<2020, 7, 22, 6, 12, 44>>),
      chile_2015  |-> DateUTC(<<2015, 9, 16, 22, 54, 33>>) ]

getCurrentTimestamp(m) ==
    LET eventStart ==
            IF m.state.currentEvent \in DOMAIN eventStartTimes
            THEN eventStartTimes[m.state.currentEvent]
            ELSE eventStartTimes.tohoku_2011
        simulationTime == SimulationMs(m.state.currentTime)
    IN  DatePlus(eventStart, simulationTime)

\* RECENT_TSUNAMI_EVENTS[i].timestamp of the seismic event catalog, by id
RECENT_TSUNAMI_EVENTS ==
    [ tohoku_2011 |-> [timestamp |-> DateUTC(<<2011, 3, 11, 5, 46, 24>>)],
      alaska_2020 |-> [timestamp |-> DateUTC(<<2020, 7, 22, 6, 12, 44>>)],
      chile_2015  |-> [timestamp |-> DateUTC(<<2015, 9, 16, 22, 54, 33>>)] ]

(***************************************************************************)
(* The tsunami classifiers: detectTsunami of the page and detectTsunamiStatus *)
(* of the /api/buoys route.  Heights are whole tenths of a metre; quotients *)
(* are compared exactly.                                                   *)
(***************************************************************************)
Metres(whole, tenths) == whole * 10 + tenths

\* a reading as the route builds it: WVHT sets both heights, and a missing
\* WVHT leaves waveHeight 0 and waterColumnHeight undefined
Reading(h) ==
    [ waveHeight        |-> h,
      waterColumnHeight |-> IF h = 0 THEN UNDEFINED ELSE h ]

\* r.waveHeight || r.waterColumnHeight || 0
heightOf(r) ==
    IF r.waveHeight # 0 THEN r.waveHeight
    ELSE IF r.waterColumnHeight # UNDEFINED /\ r.waterColumnHeight # 0
         THEN r.waterColumnHeight
         ELSE 0

\* variant: the size of the change, whatever its direction
heightChangePercent_absolute(currentHeight, previousHeight) ==
    LET heightChange == Abs(currentHeight - previousHeight)
    IN  RatTimes(RatDiv(heightChange,
                        IF previousHeight # 0 THEN previousHeight ELSE Metres(1, 0)),
                 100)

\* (heightChange / (previousHeight || 1)) * 100
heightChangePercent(currentHeight, previousHeight) ==
    LET heightChange == currentHeight - previousHeight
    IN  RatTimes(RatDiv(heightChange,
                        IF previousHeight # 0 THEN previousHeight ELSE Metres(1, 0)),
                 100)

\* r > k for a fraction r with positive denominator
RatGreater(r, k) == r[1] > k * r[2]

\* arr.slice(-n)
sliceLast(arr, n) == SubSeq(arr, Max(1, Len(arr) - n + 1), Len(arr))

\* heights.reduce((sum, h) => sum + h, 0)
sum(heights) ==
    LET acc[i \in 0..Len(heights)] == IF i = 0 THEN 0 ELSE acc[i - 1] + heights[i]
    IN  acc[Len(heights)]

\* heights.every((val, i) => i === 0 || val >= heights[i - 1] * 0.9)
withinSlack(heights) ==
    \A i \in 2..Len(heights) : 10 * heights[i] >= 9 * heights[i - 1]

Verdict(isTsunami, severity) == [isTsunami |-> isTsunami, severity |-> severity]

\* "Fallback for initial detection"
fallback(currentHeight) ==
    IF currentHeight > Metres(6, 0) THEN Verdict(TRUE, "critical")
    ELSE IF currentHeight > Metres(4, 0) THEN Verdict(TRUE, "high")
    ELSE IF currentHeight > Metres(2, 5) THEN Verdict(TRUE, "medium")
    ELSE Verdict(FALSE, "normal")

\* detectTsunami(buoy), called without a simulationTime
detectTsunami(buoy) ==
    IF Len(buoy.readings) < 2 THEN Verdict(FALSE, "normal")
    ELSE
    LET latestReading   == buoy.readings[Len(buoy.readings)]
        previousReading == buoy.readings[Len(buoy.readings) - 1]
        currentHeight   == heightOf(latestReading)
        previousHeight  == heightOf(previousReading)
        percent         == heightChangePercent(currentHeight, previousHeight)
        hasSignificantWaveHeight == currentHeight > Metres(2, 5)
        hasRapidIncrease         == RatGreater(percent, 30)
        hasLargeMagnitude        == currentHeight > Metres(4, 0)
        hasCriticalMagnitude     == currentHeight > Metres(6, 0)
        recent       == sliceLast(buoy.readings, 4)
        heights      == [i \in 1..Len(recent) |-> heightOf(recent[i])]
        isIncreasing == withinSlack(heights)
        avgHeight    == RatDiv(sum(heights), Len(heights))
    IN  IF Len(buoy.readings) >= 3
           /\ (hasCriticalMagnitude \/ currentHeight > Metres(7, 0))
        THEN Verdict(TRUE, "critical")
        ELSE IF Len(buoy.readings) >= 3
                /\ (hasLargeMagnitude \/ (hasSignificantWaveHeight /\ hasRapidIncrease))
        THEN Verdict(TRUE, "high")
        ELSE IF Len(buoy.readings) >= 3
                /\ (\/ hasSignificantWaveHeight
                    \/ RatGreater(percent, 20)
                    \/ (RatGreater(avgHeight, Metres(2, 0)) /\ isIncreasing))
        THEN Verdict(TRUE, "medium")
        ELSE IF Len(buoy.readings) >= 3
                /\ (currentHeight > Metres(2, 0) \/ RatGreater(percent, 15))
        THEN Verdict(TRUE, "medium")
        ELSE fallback(currentHeight)

\* detectTsunamiStatus(buoy) of the route
detectTsunamiStatus(buoy) ==
    IF Len(buoy.readings) < 2 THEN Verdict(FALSE, "normal")
    ELSE
    LET latestReading   == buoy.readings[Len(buoy.readings)]
        previousReading == buoy.readings[Len(buoy.readings) - 1]
        currentHeight   == heightOf(latestReading)
        previousHeight  == heightOf(previousReading)
        percent         == heightChangePercent(currentHeight, previousHeight)
        hasSignificantWaveHeight == currentHeight > Metres(2, 5)
        hasRapidIncrease         == RatGreater(percent, 30)
        hasLargeMagnitude        == currentHeight > Metres(4, 0)
        hasCriticalMagnitude     == currentHeight > Metres(6, 0)
        recent    == sliceLast(buoy.readings, 4)
        heights   == [i \in 1..Len(recent) |-> heightOf(recent[i])]
        avgHeight == RatDiv(sum(heights), Len(heights))
    IN  IF Len(buoy.readings) >= 3
           /\ (hasCriticalMagnitude \/ currentHeight > Metres(7, 0))
        THEN Verdict(TRUE, "critical")
        ELSE IF Len(buoy.readings) >= 3
                /\ (hasLargeMagnitude \/ (hasSignificantWaveHeight /\ hasRapidIncrease))
        THEN Verdict(TRUE, "high")
        ELSE IF Len(buoy.readings) >= 3
                /\ (\/ hasSignificantWaveHeight
                    \/ RatGreater(percent, 20)
                    \/ RatGreater(avgHeight, Metres(2, 0)))
        THEN Verdict(TRUE, "medium")
        ELSE IF Len(buoy.readings) >= 3
                /\ (currentHeight > Metres(2, 0) \/ RatGreater(percent, 15))
        THEN Verdict(TRUE, "medium")
        ELSE fallback(currentHeight)

(***************************************************************************)
(* The status cache of BuoyCacheManager.  A BuoyStatusCache is a mutable   *)
(* object: the manager and every suspended updateBuoyStatus call hold      *)
(* references into the heap, so that two holders of one reference see each *)
(* other's writes and holders of different objects do not.  An object is a *)
(* function from its keys, buoy ids, to entries.  Of an entry's            *)
(* lastReading the timestamp is kept; waveHeight and location are inputs   *)
(* copied as they are.                                                     *)
(***************************************************************************)
CACHE_DURATION == 5 * 60 * 1000
STATUS_CACHE_DURATION == 2 * 60 * 1000

BuoyIds == <<"21413", "46221">>

\* the cache manager object and the heap it points into
Cache ==
    [ memoryCache           |-> memoryCache,
      lastMemoryCacheUpdate |-> lastMemoryCacheUpdate,
      statusCache           |-> statusCache,
      lastStatusCacheUpdate |-> lastStatusCacheUpdate,
      heap                  |-> heap ]

\* {} : a fresh object with no keys
EmptyObject == [k \in {} |-> UNDEFINED]

\* object[key] = value
put(object, key, value) ==
    [k \in DOMAIN object \cup {key} |-> IF k = key THEN value ELSE object[k]]

\* a reference no live object has
newObject(h) == CHOOSE r \in 1..(Cardinality(DOMAIN h) + 1) : r \notin DOMAIN h

\* getBuoyData() at wall time t: the cached data set, or null
getBuoyData_inclusive(c, t) ==
    IF c.memoryCache # NULL /\ (t - c.lastMemoryCacheUpdate) <= CACHE_DURATION
    THEN c.memoryCache
    ELSE NULL

getBuoyData(c, t) ==
    IF c.memoryCache # NULL /\ (t - c.lastMemoryCacheUpdate) < CACHE_DURATION
    THEN c.memoryCache
    ELSE NULL

setBuoyData(c, data, t) ==
    [c EXCEPT !.memoryCache = data, !.lastMemoryCacheUpdate = t]

\* getBuoyStatus() at wall time t: the cached object itself, or null
getBuoyStatus(c, t) ==
    IF c.statusCache # NULL /\ (t - c.lastStatusCacheUpdate) < STATUS_CACHE_DURATION
    THEN c.statusCache
    ELSE NULL

setBuoyStatus(c, ref, t) ==
    [c EXCEPT !.statusCache = ref, !.lastStatusCacheUpdate = t]

\* updateBuoyStatus from its first await on: `got` is what getBuoyStatus()
\* returned when the call was started, t the wall time now
resumeUpdateBuoyStatus(c, got, buoyId, status, isTsunami, t) ==
    LET currentCache  == IF got # NULL THEN got ELSE newObject(c.heap)
        object        == IF got # NULL THEN c.heap[got] ELSE EmptyObject
        hasPrevious   == buoyId \in DOMAIN object
        statusChanged == ~hasPrevious \/ object[buoyId].status # status
        entry ==
            [ status       |-> status,
              isTsunami    |-> isTsunami,
              lastStatusChange |->
                  IF statusChanged THEN t ELSE object[buoyId].lastStatusChange,
              consecutiveAlertsCount |->
                  IF isTsunami
                  THEN IF hasPrevious /\ object[buoyId].isTsunami
                       THEN object[buoyId].consecutiveAlertsCount + 1
                       ELSE 1
                  ELSE 0,
              lastReading  |-> [timestamp |-> t] ]
    IN  setBuoyStatus([c EXCEPT !.heap = put(@, currentCache, put(object, buoyId, entry))],
                      currentCache, t)

\* clearCache(): both caches and both timestamps
clearCache(c) ==
    [c EXCEPT !.memoryCache = NULL, !.lastMemoryCacheUpdate = 0,
              !.statusCache = NULL, !.lastStatusCacheUpdate = 0]

(***************************************************************************)
(* The wave on the map.  Simulated time is in the clock's units, distances *)
(* are whole kilometres, the radius handed to Leaflet is in metres.        *)
(***************************************************************************)
\* (200 * 60) / 1000 km per minute
waveSpeedKmPerMin == (200 * 60) \div 1000

\* waveRadius = currentTime * waveSpeedKmPerMin * 1000, in metres
waveRadius(currentTime) == currentTime * ((waveSpeedKmPerMin * 1000) \div UnitsPerMinute)

\* km/h in deep ocean
waveSpeed == 200

\* calculateWaveArrival from the great-circle distance on: distance / waveSpeed
\* hours, returned in minutes
calculateWaveArrival(distance) == (distance * 60 * UnitsPerMinute) \div waveSpeed

\* x.toFixed(0) of a time span times km per minute: the nearest whole number
toFixed0(units) == (units + UnitsPerMinute \div 2) \div UnitsPerMinute

\* what createWavePropagation and the marker loop draw for one buoy
drawMarker(currentTime, distance) ==
    LET arrivalTime == calculateWaveArrival(distance)
    IN  [ currentTime    |-> currentTime,
          drawn          |-> currentTime > 0 /\ waveRadius(currentTime) > 0,
          waveRadius     |-> waveRadius(currentTime),
          arrivalTime    |-> arrivalTime,
          hasWaveArrived |-> currentTime >= arrivalTime,
          distanceShown  |-> toFixed0(arrivalTime * 12) ]

(***************************************************************************)
(* generateTsunamiReadings.  Numbers are fixed-point with four decimals    *)
(* (FIXED stands for 1.0), so minutes and metres of wave height are in     *)
(* ten-thousandths; latitudes and longitudes are in thousandths of a       *)
(* degree, magnitudes in tenths, distances in metres.  Math.exp and        *)
(* Math.sin are their power series, good to about three decimals on the    *)
(* arguments that occur.  The two random fields of a reading,              *)
(* dominantWavePeriod and atmosphericPressure, are left out.               *)
(***************************************************************************)
FIXED == 10000

PI == 31416

\* a / b to the nearest whole number
over(a, b) == (a + b \div 2) \div b

times(a, b) == over(a * b, FIXED)

\* Math.sqrt of a whole number, rounded down: first to a multiple of 216,
\* then exactly; rootAtMost(r, m) is r * r <= m
sqrt(n) ==
    LET rootAtMost(r, m) == r = 0 \/ r <= m \div r
        coarse == CHOOSE h \in 0..214 :
                      rootAtMost(216 * h, n) /\ ~rootAtMost(216 * (h + 1), n)
    IN  CHOOSE r \in (216 * coarse)..(216 * coarse + 215) :
            rootAtMost(r, n) /\ ~rootAtMost(r + 1, n)

\* the power series of e^x from its k-th term on
RECURSIVE expFrom(_, _, _)
expFrom(x, term, k) ==
    IF term = 0 \/ k > 30
    THEN 0
    ELSE term + expFrom(x, over(term * x, FIXED * k), k + 1)

exp(x) == The({ expFrom(v, FIXED, 1) : v \in {x} })

\* the power series of sin x from the term of degree k - 2 on
RECURSIVE sinFrom(_, _, _)
sinFrom(x, term, k) ==
    IF term = 0 \/ k > 31
    THEN 0
    ELSE term + sinFrom(x, over(0 - times(times(term, x), x), (k - 1) * k), k + 2)

\* sin is periodic and sin(pi - x) = sin x: the argument is first brought
\* into [-pi, pi) and then into [-pi/2, pi/2]
sin(x) ==
    LET r == x - 2 * PI * ((x + PI) \div (2 * PI))
        q == IF 2 * r > PI THEN PI - r ELSE IF 2 * r < 0 - PI THEN 0 - PI - r ELSE r
    IN  The({ sinFrom(v, v, 3) : v \in {q} })

\* distance from the epicentre (simplified), in metres
flatDistance(s) ==
    sqrt((s.buoyLat - s.epicenterLat) * (s.buoyLat - s.epicenterLat)
         + (s.buoyLon - s.epicenterLon) * (s.buoyLon - s.epicenterLon)) * 111

\* arrivalTimeMinutes = (distance / waveSpeed) * 60 with waveSpeed = 500 km/h
arrivalTimeMinutes(s) == over(flatDistance(s) * 60, 500) * (FIXED \div 1000)

\* Math.max(0, (magnitude - 7) * 2 - distance / 1000)
tsunamiAmplitude(s) ==
    Max(0, (s.magnitude - 70) * 2 * (FIXED \div 10) - over(flatDistance(s), 100))

\* wave1 + wave2 + wave3, floored at 0
tsunamiComponent(amplitude, minutesSinceArrival) ==
    LET wave1 == times(times(amplitude, exp(over(0 - minutesSinceArrival, 60))),
                       sin(over(minutesSinceArrival, 15)))
        wave2 == times(times(over(amplitude * 7, 10),
                             exp(over(0 - (minutesSinceArrival - 30 * FIXED), 60))),
                       sin(over(minutesSinceArrival - 30 * FIXED, 18)))
        wave3 == times(times(over(amplitude * 5, 10),
                             exp(over(0 - (minutesSinceArrival - 60 * FIXED), 60))),
                       sin(over(minutesSinceArrival - 60 * FIXED, 22)))
    IN  Max(0, wave1 + wave2 + wave3)

\* 1.2 + Math.sin(minutesSinceStart / 30) * 0.3 : the normal sea state
seaState(minutesSinceStart) ==
    (12 * FIXED) \div 10 + over(sin(over(minutesSinceStart, 30)) * 3, 10)

\* the body of the loop: the reading i * intervalMinutes after startTime
readingAt(s, arrival, amplitude, minutesSinceStart) ==
    LET minutesSinceArrival == minutesSinceStart - arrival
        component ==
            IF minutesSinceArrival > 0 /\ minutesSinceArrival < 180 * FIXED
               /\ amplitude > 0
            THEN tsunamiComponent(amplitude, minutesSinceArrival)
            ELSE 0
        isTsunamiWave == component > FIXED \div 2
        height == seaState(minutesSinceStart) + IF isTsunamiWave THEN component ELSE 0
    IN  [ timestamp     |-> minutesSinceStart,
          waveHeight    |-> Max(FIXED \div 10, height),
          isTsunamiWave |-> isTsunamiWave ]

generateTsunamiReadings(s) ==
    LET intervalMinutes == 6
        totalReadings   == (s.durationHours * 60) \div intervalMinutes
    IN  The({ [i \in 1..totalReadings |->
                  readingAt(s, arrival, amplitude, (i - 1) * intervalMinutes * FIXED)] :
              arrival \in {arrivalTimeMinutes(s)}, amplitude \in {tsunamiAmplitude(s)} })

\* tsunamiReadings.reduce(...): the closest so far is replaced only by a
\* reading strictly closer to the time asked for, so the result is the first
\* of the readings at the least distance
reduceClosest(series, currentTime) ==
    LET timeDiff(i) == Abs(series[i].timestamp - currentTime)
        first == CHOOSE i \in 1..Len(series) :
                     \A j \in 1..Len(series) :
                         timeDiff(i) < timeDiff(j) \/ (timeDiff(i) = timeDiff(j) /\ i <= j)
    IN  series[first]

(***************************************************************************)
(* Inputs the environment may supply.                                      *)
(***************************************************************************)
Gaps == {50, 15000}                            \* wall-clock advances (ms)
SeekInputs == {Minutes(-5), Minutes(120), Minutes(239), Minutes(300)}
ProgressInputs == {-10, 50, 150}               \* percent
SpeedInputs == {Speed(1, 4), Speed(1, 1), Speed(16, 1), Speed(3, 1)}
EventInputs == {"tohoku_2011", "alaska_2020", "chile_2015", "kobe_1995"}
Subscribers == {"panel"}                       \* the control panel's setState
Listeners == {"panel", "map", "once", "evictor"}
MaxListeners == 2                              \* callbacks subscribed at a time
Heights ==                                     \* wave heights reported (0.1 m)
    {0, Metres(1, 9), Metres(2, 0), Metres(2, 2), Metres(2, 6), Metres(4, 5),
     Metres(6, 5)}
MaxReadings == 5                               \* readings held for the buoy
CacheGaps == {60000, 180000}                   \* waits (ms): within the TTL, beyond it
MaxWaits == 2                                  \* waits explored
MaxRefreshes == 3                              \* status refreshes explored
Statuses == {"normal", "high"}                 \* severities the route hands over
MaxRequests == 2                               \* requests in flight at a time
MaxFetches == 2                                \* successful fetches explored
Distances == {160, 234, 1000, 2500}            \* buoys, by distance from the epicentre (km)

\* buoys by position: the coastal station at 36.5N 141.0E and the DART buoys
\* 21413, 21415 and 52401
Buoys ==
    { [lat |-> 36500, lon |-> 141000], [lat |-> 13350, lon |-> 144790],
      [lat |-> 30000, lon |-> 152000], [lat |-> 32310, lon |-> 152120] }

\* earthquakes: tohoku_2011 of the catalogue and the mock event
Quakes ==
    { [lat |-> 38297, lon |-> 142373, magnitude |-> 91],
      [lat |-> 36500, lon |-> 142800, magnitude |-> 82] }

Scenarios ==
    { [ buoyLat |-> b.lat, buoyLon |-> b.lon, epicenterLat |-> q.lat,
        epicenterLon |-> q.lon, magnitude |-> q.magnitude, durationHours |-> h ] :
      b \in Buoys, q \in Quakes, h \in {4, 6} }    \* the route's 4 hours, the default 6


\* every buoy.readings of at most MaxReadings readings
Windows == UNION {[1..n -> {Reading(h) : h \in Heights}] : n \in 0..MaxReadings}

(***************************************************************************)
(* The state machine.                                                      *)
(***************************************************************************)
\* the play/pause flags and whether the manager holds a timer
Flags ==
    [ isPlaying |-> state.isPlaying,
      isPaused  |-> state.isPaused,
      timer     |-> intervalId # NULL ]

NO_VERDICT == [by |-> "none"]

PlaybackInit ==
    /\ state = DEFAULT_PLAYBACK_STATE
    /\ intervalId = NULL
    /\ callbacks = <<>>
    /\ lastUpdateTime = 0
    /\ timers = {}
    /\ now = StartNow
    /\ log = <<>>
    /\ lastOp = "new"
    /\ lastArg = 0
    /\ tickBase = 0
    /\ pre = Flags
    /\ advances = 0

BuoySet == {BuoyIds[i] : i \in 1..Len(BuoyIds)}

NO_CACHE_OP == [op |-> "new", buoy |-> UNDEFINED, buoys |-> {}]

NO_RESPONSE == [status |-> 0, cacheStatus |-> UNDEFINED, body |-> NULL]

NO_WRITE == [ref |-> NULL, at |-> 0]

CacheManagerInit ==
    /\ statusCache = NULL
    /\ lastStatusCacheUpdate = 0
    /\ heap = <<>>
    /\ microtasks = <<>>
    /\ streak = [b \in BuoySet |-> 0]
    /\ cacheOp = NO_CACHE_OP
    /\ refreshes = 0
    /\ memoryCache = NULL
    /\ lastMemoryCacheUpdate = 0
    /\ fetching = 0
    /\ fetches = 0
    /\ response = NO_RESPONSE
    /\ dataWrite = NO_WRITE
    /\ statusWrite = NO_WRITE

NO_MARKER ==
    [ currentTime |-> -1, drawn |-> FALSE, waveRadius |-> 0, arrivalTime |-> 0,
      hasWaveArrived |-> FALSE, distanceShown |-> 0 ]

NO_SCENARIO ==
    [ buoyLat |-> 0, buoyLon |-> 0, epicenterLat |-> 0, epicenterLon |-> 0,
      magnitude |-> 0, durationHours |-> 0 ]

NO_READING == [target |-> -1]

WaveInit ==
    /\ buoyDistance = 0
    /\ marker = NO_MARKER
    /\ scenario = NO_SCENARIO
    /\ tsunamiReadings = <<>>
    /\ closestReading = NO_READING

Init ==
    /\ PlaybackInit
    /\ readings = <<>>
    /\ verdict = NO_VERDICT
    /\ CacheManagerInit
    /\ WaveInit

\* the manager after a handler has returned, with the histories
CommitAt(m0, op, arg, t) ==
    \E m \in {m0} :
        /\ state' = m.state
        /\ intervalId' = m.intervalId
        /\ callbacks' = m.callbacks
        /\ lastUpdateTime' = m.lastUpdateTime
        /\ timers' = m.timers
        /\ log' = m.log
        /\ lastOp' = op
        /\ lastArg' = arg
        /\ tickBase' = IF op = "tick" \/ m.timers \ timers # {} THEN t ELSE tickBase
        /\ pre' = Flags
        /\ now' = t
        /\ UNCHANGED advances
        /\ UNCHANGED <<classifierVars, cacheVars, dataVars, waveVars>>

Commit(m, op, arg) == CommitAt(m, op, arg, now)

AdvanceClock ==
    \E d \in Gaps :
        /\ advances < MaxAdvances
        /\ now' = now + d
        /\ advances' = advances + 1
        /\ lastOp' = "clock"
        /\ lastArg' = d
        /\ UNCHANGED <<state, intervalId, callbacks, lastUpdateTime, timers, log,
                       tickBase, pre>>
        /\ UNCHANGED <<classifierVars, cacheVars, dataVars, waveVars>>

Tick == \E id \in timers : Commit(intervalCallback(Mgr, now), "tick", 0)

Play == Commit(play(Mgr, now), "play", 0)

Pause == Commit(pause(Mgr), "pause", 0)

Stop == Commit(stop(Mgr), "stop", 0)

Restart == Commit(restart(Mgr, now), "restart", 0)

SetSpeed == \E s \in SpeedInputs : Commit(setSpeed(Mgr, s), "setSpeed", s)

SeekTo == \E t \in SeekInputs : Commit(seekTo(Mgr, t), "seekTo", t)

SeekToProgress ==
    \E p \in ProgressInputs : Commit(seekToProgress(Mgr, p), "seekToProgress", p)

NextEvent == Commit(nextEvent(Mgr), "nextEvent", 0)

PreviousEvent == Commit(previousEvent(Mgr), "previousEvent", 0)

SetEvent == \E e \in EventInputs : Commit(setEvent(Mgr, e), "setEvent", e)

Subscribe ==
    \E cb \in Subscribers :
        /\ ~includes(callbacks, cb)
        /\ Commit(subscribe(Mgr, cb), "subscribe", cb)

Unsubscribe ==
    \E cb \in Subscribers :
        /\ includes(callbacks, cb)
        /\ Commit(unsubscribe(Mgr, cb), "unsubscribe", cb)

Next ==
    \/ AdvanceClock
    \/ Tick
    \/ Play
    \/ Pause
    \/ Stop
    \/ Restart
    \/ SetSpeed
    \/ SeekTo
    \/ SeekToProgress
    \/ NextEvent
    \/ PreviousEvent
    \/ SetEvent
    \/ Subscribe
    \/ Unsubscribe

Spec == Init /\ [][Next]_vars

(***************************************************************************)
(* An uninterrupted run: the controls are used to set the clock up, play() *)
(* is called, and from then on only the interval timer acts.  Each firing  *)
(* of the timer happens some positive wall-clock time after the previous   *)
(* one.  setInterval keeps firing a live timer, hence the weak fairness.   *)
(***************************************************************************)
RunGaps == {100, 15000}                        \* time between two firings (ms)
SetupOps == {"new", "setSpeed", "seekTo", "subscribe"}

RunSetup ==
    /\ lastOp \in SetupOps
    /\ \/ SetSpeed
       \/ SeekTo
       \/ Subscribe

RunPlay == lastOp \in SetupOps /\ Play

RunTick ==
    /\ lastOp \in {"play", "tick"}
    /\ \E id \in timers : \E d \in RunGaps :
          CommitAt(intervalCallback(Mgr, now + d), "tick", 0, now + d)

RunNext == RunSetup \/ RunPlay \/ RunTick

RunSpec == Init /\ [][RunNext]_vars /\ WF_vars(RunTick)

(***************************************************************************)
(* Several subscribers, some of which unsubscribe while they are being     *)
(* notified.  The wall clock stands still: a tick then adds nothing, but   *)
(* still publishes the state, and from the end of the horizon it stops.    *)
(***************************************************************************)
Attach ==
    \E cb \in Listeners :
        /\ ~includes(callbacks, cb)
        /\ Len(callbacks) < MaxListeners
        /\ Commit(subscribe(Mgr, cb), "subscribe", cb)

NotifyNext ==
    \/ Attach
    \/ Tick
    \/ Play
    \/ Pause
    \/ Stop
    \/ Restart
    \/ SetSpeed
    \/ SeekTo
    \/ SeekToProgress
    \/ NextEvent
    \/ PreviousEvent
    \/ SetEvent

NotifySpec == Init /\ [][NotifyNext]_vars


(***************************************************************************)
(* The manager's whole life: the controls, the timer and cleanup(), which  *)
(* the owner of the manager may call at any time.  The wall clock stands   *)
(* still.                                                                  *)
(***************************************************************************)
Cleanup == Commit(cleanup(Mgr), "cleanup", 0)

LifecycleNext ==
    \/ Cleanup
    \/ Subscribe
    \/ Tick
    \/ Play
    \/ Pause
    \/ Stop
    \/ Restart
    \/ SetSpeed
    \/ SeekTo
    \/ SeekToProgress
    \/ NextEvent
    \/ PreviousEvent
    \/ SetEvent

LifecycleSpec == Init /\ [][LifecycleNext]_vars

(***************************************************************************)
(* The map at work: a buoy at some distance from the epicentre, the user   *)
(* seeks, and the map redraws the wave front and the buoy's marker from    *)
(* the clock's currentTime.                                                *)
(***************************************************************************)
MapInit ==
    /\ PlaybackInit
    /\ readings = <<>>
    /\ verdict = NO_VERDICT
    /\ CacheManagerInit
    /\ buoyDistance \in Distances
    /\ marker = NO_MARKER
    /\ scenario = NO_SCENARIO
    /\ tsunamiReadings = <<>>
    /\ closestReading = NO_READING

DrawMap ==
    /\ marker' = drawMarker(state.currentTime, buoyDistance)
    /\ lastOp' = "draw"
    /\ UNCHANGED <<state, intervalId, callbacks, lastUpdateTime, timers, now, log,
                   lastArg, tickBase, pre, advances>>
    /\ UNCHANGED <<classifierVars, cacheVars, dataVars, buoyDistance, scenario,
                   tsunamiReadings, closestReading>>

MapNext ==
    \/ SeekTo
    \/ SeekToProgress
    \/ DrawMap

MapSpec == MapInit /\ [][MapNext]_vars

(***************************************************************************)
(* The simulated readings: the series of a buoy is generated for an        *)
(* earthquake, and the reading closest to some time is picked from it.     *)
(***************************************************************************)
SeriesInit ==
    /\ PlaybackInit
    /\ readings = <<>>
    /\ verdict = NO_VERDICT
    /\ CacheManagerInit
    /\ buoyDistance = 0
    /\ marker = NO_MARKER
    /\ scenario \in Scenarios
    /\ tsunamiReadings = <<>>
    /\ closestReading = NO_READING

GenerateTsunamiReadings ==
    /\ tsunamiReadings' = generateTsunamiReadings(scenario)
    /\ closestReading' = NO_READING
    /\ UNCHANGED <<playbackVars, classifierVars, cacheVars, dataVars, buoyDistance,
                   marker, scenario>>

\* the times a reading is asked for: after the wave's arrival, after the start
SampleTimes ==
    {arrivalTimeMinutes(scenario) + m * FIXED : m \in {10, 30, 60}}
        \cup {m * FIXED : m \in {0, 60, 120}}

ClosestReading ==
    /\ tsunamiReadings # <<>>
    /\ \E currentTime \in SampleTimes :
          closestReading' =
              [ target  |-> currentTime,
                reading |-> reduceClosest(tsunamiReadings, currentTime) ]
    /\ UNCHANGED <<playbackVars, classifierVars, cacheVars, dataVars, buoyDistance,
                   marker, scenario, tsunamiReadings>>

SeriesNext == GenerateTsunamiReadings \/ ClosestReading

SeriesSpec == SeriesInit /\ [][SeriesNext]_vars

(***************************************************************************)
(* The classifiers at work: a buoy arrives with any window of readings and *)
(* the page or the route classifies it.                                    *)
(***************************************************************************)
ClassifierInit ==
    /\ PlaybackInit
    /\ readings \in Windows
    /\ verdict = NO_VERDICT
    /\ CacheManagerInit
    /\ WaveInit

DetectTsunami ==
    /\ verdict' = [by |-> "detectTsunami",
                   result |-> detectTsunami([readings |-> readings])]
    /\ UNCHANGED <<playbackVars, readings, cacheVars, dataVars, waveVars>>

DetectTsunamiStatus ==
    /\ verdict' = [by |-> "detectTsunamiStatus",
                   result |-> detectTsunamiStatus([readings |-> readings])]
    /\ UNCHANGED <<playbackVars, readings, cacheVars, dataVars, waveVars>>

ClassifierNext == DetectTsunami \/ DetectTsunamiStatus

ClassifierSpec == ClassifierInit /\ [][ClassifierNext]_vars

(***************************************************************************)
(* The status cache at work.  GET /api/buoys, after a fetch, starts one    *)
(* updateBuoyStatus per visible buoy with a latest reading and awaits them *)
(* all.  Each call runs up to its first await, the one on getBuoyStatus(), *)
(* while the route is still mapping over the buoys; the rest of each call  *)
(* is a microtask, and the microtasks run in the order they were queued,   *)
(* with nothing else in between.  Between requests time passes, and the    *)
(* cache endpoint may clear the cache.                                     *)
(***************************************************************************)
managerVars == <<state, intervalId, callbacks, lastUpdateTime, timers, log,
                 lastOp, lastArg, tickBase, pre>>

\* the manager and the references still held, with unreachable objects dropped
CommitCache(c, tasks) ==
    LET live == ({c.statusCache} \cup {tasks[i].got : i \in 1..Len(tasks)}) \ {NULL}
    IN  /\ memoryCache' = c.memoryCache
        /\ lastMemoryCacheUpdate' = c.lastMemoryCacheUpdate
        /\ statusCache' = c.statusCache
        /\ lastStatusCacheUpdate' = c.lastStatusCacheUpdate
        /\ heap' = [r \in live |-> c.heap[r]]
        /\ microtasks' = tasks

\* visibleBuoys.map(async (buoy) => ... await updateBuoyStatus(...))
RefreshStatuses ==
    /\ microtasks = <<>>
    /\ refreshes < MaxRefreshes
    /\ \E visible \in SUBSET BuoySet \ {{}} :
       \E severity \in [visible -> Statuses] :
          LET order == SelectSeq(BuoyIds, LAMBDA b : b \in visible)
              tasks == [i \in 1..Len(order) |->
                          [ buoyId    |-> order[i],
                            status    |-> severity[order[i]],
                            isTsunami |-> severity[order[i]] # "normal",
                            got       |-> getBuoyStatus(Cache, now) ]]
          IN  /\ CommitCache(Cache, tasks)
              /\ cacheOp' = [op |-> "refresh", buoy |-> UNDEFINED, buoys |-> visible]
    /\ refreshes' = refreshes + 1
    /\ UNCHANGED <<playbackVars, classifierVars, waveVars, streak, statusWrite, requestVars>>

\* the next suspended updateBuoyStatus call runs to its end
RunMicrotask ==
    /\ microtasks # <<>>
    /\ LET task == Head(microtasks)
       IN  /\ CommitCache(
                 resumeUpdateBuoyStatus(Cache, task.got, task.buoyId, task.status,
                                        task.isTsunami, now),
                 Tail(microtasks))
           /\ streak' = [streak EXCEPT ![task.buoyId] = IF task.isTsunami THEN @ + 1 ELSE 0]
           /\ cacheOp' = [cacheOp EXCEPT !.op = "update", !.buoy = task.buoyId]
           /\ statusWrite' =
                  [ ref |-> IF task.got # NULL THEN task.got ELSE newObject(heap),
                    at  |-> now ]
    /\ UNCHANGED <<playbackVars, classifierVars, waveVars, refreshes, requestVars>>

\* time passes between two requests
Wait ==
    \E d \in CacheGaps :
        /\ microtasks = <<>>
        /\ advances < MaxWaits
        /\ now' = now + d
        /\ advances' = advances + 1
        /\ cacheOp' = [op |-> "wait", buoy |-> UNDEFINED, buoys |-> {}]
        /\ UNCHANGED <<managerVars, classifierVars, waveVars, statusCache,
                       lastStatusCacheUpdate, heap, microtasks, streak, refreshes,
                       dataVars>>

\* /api/cache?action=clear; a cleared cache has no history
ClearCache ==
    /\ microtasks = <<>>
    /\ statusCache # NULL \/ memoryCache # NULL
    /\ CommitCache(clearCache(Cache), <<>>)
    /\ streak' = [b \in BuoySet |-> 0]
    /\ cacheOp' = [op |-> "clear", buoy |-> UNDEFINED, buoys |-> {}]
    /\ dataWrite' = NO_WRITE
    /\ statusWrite' = NO_WRITE
    /\ UNCHANGED <<playbackVars, classifierVars, waveVars, refreshes, fetching, fetches,
                   response>>

CacheNext == RefreshStatuses \/ RunMicrotask \/ Wait \/ ClearCache

CacheSpec == Init /\ [][CacheNext]_vars

(***************************************************************************)
(* GET /api/buoys.  The handler answers from the data cache when           *)
(* getBuoyData() returns it; otherwise it awaits the fetch of all          *)
(* stations, and other requests are served while it waits.  When the fetch *)
(* has succeeded the handler caches the data set, starts the status        *)
(* updates of the visible buoys and responds; when it has thrown, the      *)
(* catch branch asks getBuoyData() once more.                              *)
(***************************************************************************)
\* GET up to the await of the fetch
GetBuoys ==
    /\ microtasks = <<>>
    /\ LET cachedData == getBuoyData(Cache, now)
       IN  IF cachedData # NULL
           THEN /\ response' = [status |-> 200, cacheStatus |-> "HIT", body |-> cachedData]
                /\ cacheOp' = [op |-> "hit", buoy |-> UNDEFINED, buoys |-> {}]
                /\ UNCHANGED fetching
           ELSE /\ fetching < MaxRequests
                /\ fetching' = fetching + 1
                /\ cacheOp' = [op |-> "miss", buoy |-> UNDEFINED, buoys |-> {}]
                /\ UNCHANGED response
    /\ UNCHANGED <<playbackVars, classifierVars, waveVars, statusCache, lastStatusCacheUpdate,
                   heap, microtasks, streak, refreshes, memoryCache,
                   lastMemoryCacheUpdate, statusWrite, fetches, dataWrite>>

\* the fetch has succeeded: setBuoyData, the status updates, the response
FetchSucceeds ==
    /\ microtasks = <<>>
    /\ fetching > 0
    /\ fetches < MaxFetches
    /\ \E visible \in SUBSET BuoySet :
       \E severity \in [visible -> Statuses] :
          LET data  == fetches + 1
              c     == setBuoyData(Cache, data, now)
              order == SelectSeq(BuoyIds, LAMBDA b : b \in visible)
              tasks == [i \in 1..Len(order) |->
                          [ buoyId    |-> order[i],
                            status    |-> severity[order[i]],
                            isTsunami |-> severity[order[i]] # "normal",
                            got       |-> getBuoyStatus(c, now) ]]
          IN  /\ CommitCache(c, tasks)
              /\ fetches' = data
              /\ dataWrite' = [ref |-> data, at |-> now]
              /\ response' = [status |-> 200, cacheStatus |-> "MISS", body |-> data]
              /\ cacheOp' = [op |-> "fetched", buoy |-> UNDEFINED, buoys |-> visible]
    /\ fetching' = fetching - 1
    /\ UNCHANGED <<playbackVars, classifierVars, waveVars, streak, refreshes, statusWrite>>

\* the fetch has thrown: the catch branch
FetchFails ==
    /\ microtasks = <<>>
    /\ fetching > 0
    /\ LET staleCache == getBuoyData(Cache, now)
       IN  response' =
              IF staleCache # NULL
              THEN [status |-> 200, cacheStatus |-> "STALE", body |-> staleCache]
              ELSE [status |-> 500, cacheStatus |-> UNDEFINED, body |-> NULL]
    /\ fetching' = fetching - 1
    /\ cacheOp' = [op |-> "failed", buoy |-> UNDEFINED, buoys |-> {}]
    /\ UNCHANGED <<playbackVars, classifierVars, waveVars, statusCache, lastStatusCacheUpdate,
                   heap, microtasks, streak, refreshes, memoryCache,
                   lastMemoryCacheUpdate, statusWrite, fetches, dataWrite>>

\* time passes, between requests or while a fetch is awaited
Idle ==
    \E d \in {120000, 300000} :                   \* waits (ms): the two TTLs
        /\ microtasks = <<>>
        /\ advances < MaxWaits
        /\ now' = now + d
        /\ advances' = advances + 1
        /\ cacheOp' = [op |-> "wait", buoy |-> UNDEFINED, buoys |-> {}]
        /\ UNCHANGED <<managerVars, classifierVars, waveVars, statusCache,
                       lastStatusCacheUpdate, heap, microtasks, streak, refreshes,
                       dataVars>>

DataNext ==
    \/ GetBuoys
    \/ FetchSucceeds
    \/ FetchFails
    \/ RunMicrotask
    \/ Idle
    \/ ClearCache

DataSpec == Init /\ [][DataNext]_vars

(***************************************************************************)
(* Properties.                                                             *)
(***************************************************************************)
\* the current state and every snapshot the last handler delivered
Snapshots == {state} \cup {log[i].snap : i \in 1..Len(log)}

Clamped(t, lo, hi) == IF t < lo THEN lo ELSE IF t > hi THEN hi ELSE t

IsStopped(s) == ~s.isPlaying /\ ~s.isPaused
TimerOff == intervalId = NULL /\ timers = {}
AtEnd ==
    /\ state.currentTime = state.totalDuration
    /\ ~state.isPlaying
    /\ state.isPaused
    /\ TimerOff

\* C1: in every reachable state, and in every snapshot delivered to a
\* subscriber, 0 <= currentTime <= totalDuration.
C1_CurrentTimeInRange ==
    \A s \in Snapshots : 0 <= s.currentTime /\ s.currentTime <= s.totalDuration

\* a tick that would have passed the end (239 min plus more than a minute)
\* was delivered to a subscriber clamped to totalDuration
C1_Witness ==
    /\ lastOp = "tick"
    /\ Len(log) = 2
    /\ log[1].snap.currentTime = Minutes(239)
    /\ log[2].snap.currentTime = state.totalDuration

\* C2: once play() has been called and only timer ticks follow, the clock
\* eventually sits at currentTime = totalDuration, not playing, paused, with
\* the timer stopped; it stays there, and currentTime never exceeds
\* totalDuration on the way.
C2_PlayRunsToEnd ==
    /\ (lastOp = "play") ~> AtEnd
    /\ [][AtEnd => AtEnd']_vars
    /\ [](state.currentTime <= state.totalDuration)

C2_Witness == lastOp = "tick" /\ AtEnd /\ now > StartNow

\* C3: from every reachable state restart() leaves the same PlaybackState,
\* the same timer status and the same elapsed-time baseline as stop()
\* followed by play().
C3_RestartIsStopThenPlay ==
    LET a == restart(Mgr, now)
        b == play(stop(Mgr), now)
    IN  /\ a.state = b.state
        /\ (a.intervalId # NULL) = (b.intervalId # NULL)
        /\ a.lastUpdateTime = b.lastUpdateTime

\* C4: stop() yields currentTime = 0 with both flags false and the timer
\* stopped; with no timer no tick fires, and only play() or restart() start
\* a timer again.
C4_StopResets ==
    /\ [](lastOp = "stop" =>
            state.currentTime = 0 /\ IsStopped(state) /\ TimerOff)
    /\ [][timers = {} =>
            /\ lastOp' # "tick"
            /\ (timers' # {} => lastOp' \in {"play", "restart"})]_vars

C4_Witness == lastOp = "stop" /\ pre.isPlaying /\ pre.timer /\ state.currentTime = 0

\* C5: setEvent with an id outside the catalog leaves currentEvent as it was.
C5_InvalidEventIgnored ==
    [][(lastOp' = "setEvent" /\ ~includes(events, lastArg'))
          => state'.currentEvent = state.currentEvent]_vars

\* C6: playbackSpeed is always one of PLAYBACK_SPEEDS; setSpeed(s) adopts s
\* when s is in the set and sets 1x otherwise.
C6_SpeedEnumerated ==
    /\ \A s \in Snapshots : includes(PLAYBACK_SPEEDS, s.playbackSpeed)
    /\ lastOp = "setSpeed" =>
          state.playbackSpeed =
              IF \E i \in 1..Len(PLAYBACK_SPEEDS) : PLAYBACK_SPEEDS[i] = lastArg
              THEN lastArg ELSE Speed(1, 1)

C6_Witness ==
    lastOp = "setSpeed" /\ lastArg = Speed(3, 1) /\ state.playbackSpeed = Speed(1, 1)

\* C7: after setEvent, nextEvent or previousEvent the clock is at 0, stopped,
\* and the timer is off.
C7_EventSwitchStops ==
    lastOp \in {"setEvent", "nextEvent", "previousEvent"} =>
        state.currentTime = 0 /\ IsStopped(state) /\ TimerOff

C7_Witness == lastOp = "nextEvent" /\ pre.isPlaying /\ pre.timer /\ TimerOff

\* C8: seekTo(t) sets currentTime to t clamped into [0, totalDuration] and
\* leaves isPlaying, isPaused, playbackSpeed, currentEvent and the timer as
\* they were.
C8_SeekToFrame ==
    [][lastOp' = "seekTo" =>
          /\ state'.currentTime = Clamped(lastArg', 0, state.totalDuration)
          /\ state'.isPlaying = state.isPlaying
          /\ state'.isPaused = state.isPaused
          /\ state'.playbackSpeed = state.playbackSpeed
          /\ state'.currentEvent = state.currentEvent
          /\ intervalId' = intervalId
          /\ timers' = timers]_vars

C8_Witness ==
    /\ lastOp = "seekTo"
    /\ lastArg = Minutes(300)
    /\ state.currentTime = state.totalDuration
    /\ state.isPlaying
    /\ intervalId # NULL

\* C9: in the state and in every delivered snapshot,
\* progress = currentTime / totalDuration * 100.
\* (both sides are fractions in lowest terms, so equality is equality of values)
C9_ProgressDerived ==
    \A s \in Snapshots : s.progress = Rat(s.currentTime * 100, s.totalDuration)

C9_Witness ==
    /\ lastOp = "seekTo"
    /\ lastArg = Minutes(120)
    /\ Len(log) > 0
    /\ log[Len(log)].snap.progress = <<50, 1>>

\* C10 as stated: each tick while playing adds exactly the wall-clock time
\* elapsed since the previous tick (or the timer's start) times the speed.
C10_TickAddsElapsed ==
    [][(lastOp' = "tick" /\ state.isPlaying) =>
          state'.currentTime =
              state.currentTime + (now' - tickBase) * state.playbackSpeed]_vars

\* C10 amended: the same, with the sum clamped to totalDuration.
C10_TickAddsElapsedClamped ==
    [][(lastOp' = "tick" /\ state.isPlaying) =>
          state'.currentTime =
              Min(state.currentTime + (now' - tickBase) * state.playbackSpeed,
                  state.totalDuration)]_vars

\* 15 s went by while the clock was not playing and 50 ms while it was:
\* the tick added the 50 ms only
C10_Witness ==
    /\ lastOp = "tick"
    /\ state.isPlaying
    /\ now - StartNow = 15050
    /\ state.currentTime = 50 * state.playbackSpeed

\* C13: pause() is idempotent from every reachable state: a second pause()
\* leaves the PlaybackState and the stopped timer of the first, which has
\* isPlaying = false, isPaused = true and currentTime, playbackSpeed and
\* currentEvent as they were before it.
C13_PauseIdempotent ==
    /\ [](LET a == pause(Mgr)
              b == pause(a)
          IN  /\ ~a.state.isPlaying
              /\ a.state.isPaused
              /\ a.state.currentTime = state.currentTime
              /\ a.state.playbackSpeed = state.playbackSpeed
              /\ a.state.currentEvent = state.currentEvent
              /\ a.intervalId = NULL
              /\ a.timers = timers \ {intervalId}
              /\ b.state = a.state
              /\ b.intervalId = a.intervalId
              /\ b.timers = a.timers)
    /\ [][(lastOp = "pause" /\ lastOp' = "pause") =>
            state' = state /\ intervalId' = intervalId /\ timers' = timers]_vars

\* pause() has been called on a clock that was already paused part of the
\* way in, with its timer stopped
C13_Witness ==
    /\ lastOp = "pause"
    /\ pre.isPaused
    /\ ~pre.isPlaying
    /\ ~pre.timer
    /\ state.isPaused
    /\ state.currentTime = Minutes(120)
    /\ TimerOff

\* the catalog entry after e, wrapping at the end
SuccessorEvent(e) ==
    CASE e = "tohoku_2011" -> "alaska_2020"
      [] e = "alaska_2020" -> "chile_2015"
      [] e = "chile_2015"  -> "tohoku_2011"

\* C14: from any catalog event nextEvent() moves to the next catalog entry in
\* the order tohoku_2011, alaska_2020, chile_2015, tohoku_2011, so three
\* successive calls return currentEvent to where it started.
C14_NextEventCycles ==
    /\ [](includes(events, state.currentEvent) =>
            LET m1 == nextEvent(Mgr)
                m2 == nextEvent(m1)
                m3 == nextEvent(m2)
            IN  /\ m1.state.currentEvent = SuccessorEvent(state.currentEvent)
                /\ m2.state.currentEvent = SuccessorEvent(m1.state.currentEvent)
                /\ m3.state.currentEvent = state.currentEvent)
    /\ [][(lastOp' = "nextEvent" /\ includes(events, state.currentEvent)) =>
            state'.currentEvent = SuccessorEvent(state.currentEvent)]_vars

\* two nextEvent() calls have led from tohoku_2011 to chile_2015 (only
\* alaska_2020 precedes it), and the third wraps to tohoku_2011
C14_Witness ==
    /\ lastOp = "nextEvent"
    /\ state.currentEvent = "chile_2015"
    /\ nextEvent(Mgr).state.currentEvent = "tohoku_2011"

\* C15: for each catalog event, in every reachable state,
\* getCurrentTimestamp() is that event's reference timestamp in the seismic
\* event catalog (RECENT_TSUNAMI_EVENTS) plus currentTime minutes.
C15_TimestampFromCatalog ==
    state.currentEvent \in DOMAIN RECENT_TSUNAMI_EVENTS =>
        getCurrentTimestamp(Mgr) =
            DatePlus(RECENT_TSUNAMI_EVENTS[state.currentEvent].timestamp,
                     SimulationMs(state.currentTime))

\* what holds instead: the two tables agree on alaska_2020 and chile_2015,
\* and tohoku_2011 is read one second early
C15_TimestampOffByOneSecond ==
    state.currentEvent \in DOMAIN RECENT_TSUNAMI_EVENTS =>
        DatePlus(getCurrentTimestamp(Mgr),
                 IF state.currentEvent = "tohoku_2011" THEN MS_PER_SECOND ELSE 0) =
            DatePlus(RECENT_TSUNAMI_EVENTS[state.currentEvent].timestamp,
                     SimulationMs(state.currentTime))

\* the control methods, and the steps that publish the state
ControlOps ==
    {"play", "pause", "stop", "restart", "setSpeed", "seekTo", "seekToProgress",
     "setEvent", "nextEvent", "previousEvent"}

Publishes == lastOp \in ControlOps \/ (lastOp = "tick" /\ pre.isPlaying)

\* the positions of the last handler's log at which cb was invoked
InvocationsOf(cb) == {i \in 1..Len(log) : log[i].to = cb}

LastSnapshotTo(cb) ==
    log[CHOOSE i \in InvocationsOf(cb) : \A j \in InvocationsOf(cb) : j <= i].snap

\* C11: when a control call or a state-changing tick returns, every callback
\* subscribed at that moment has been invoked during the call, and the last
\* snapshot it received is the state getState() returns.
C11_AllSubscribersNotified ==
    Publishes =>
        \A k \in 1..Len(callbacks) :
            /\ InvocationsOf(callbacks[k]) # {}
            /\ LastSnapshotTo(callbacks[k]) = getState(Mgr)

\* play() from the end of the horizon ran two rounds (rewind, then start)
\* over two subscribers: both hold the final state, after an earlier one
C11_Witness ==
    /\ lastOp = "play"
    /\ callbacks = <<"panel", "map">>
    /\ Len(log) = 4
    /\ log[2].snap # state
    /\ log[3].snap = state
    /\ log[4].snap = state

\* the callbacks of a manager, as a set
Subscribed(cbs) == {cbs[k] : k \in 1..Len(cbs)}

TimesInvoked(l, cb) == Cardinality({i \in 1..Len(l) : l[i].to = cb})

\* C12: when subscribers unsubscribe themselves or one another while a round
\* of notifications is going on, the round runs to its end, it invokes every
\* callback that is still subscribed after it exactly once, it invokes only
\* callbacks that were subscribed before it, and a callback removed in a
\* round is not invoked in a later round: within a handler it is invoked at
\* most once, and no later handler invokes a callback that is not subscribed.
C12_UnsubscribeDuringRound ==
    /\ [](LET r == notifyCallbacks(Mgr)
          IN  /\ \A cb \in Subscribed(r.callbacks) : TimesInvoked(r.log, cb) = 1
              /\ \A i \in 1..Len(r.log) : r.log[i].to \in Subscribed(callbacks)
              /\ Subscribed(r.callbacks) \subseteq Subscribed(callbacks)
              /\ r.state = state)
    /\ [][lastOp' # "subscribe" =>
            /\ \A i \in 1..Len(log') : log'[i].to \in Subscribed(callbacks)
            /\ \A cb \in Subscribed(callbacks) \ Subscribed(callbacks') :
                  TimesInvoked(log', cb) <= 1
            /\ \A c1, c2 \in Subscribed(callbacks') :
                  TimesInvoked(log', c1) = TimesInvoked(log', c2)]_vars

\* "once" was notified first and unsubscribed itself on the spot; the panel,
\* subscribed after it, was still notified in the same round
C12_Witness ==
    /\ lastOp = "seekTo"
    /\ Len(log) = 2
    /\ log[1].to = "once"
    /\ log[2].to = "panel"
    /\ callbacks = <<"panel">>

\* the evictor was notified first and unsubscribed the panel, which was then
\* not notified in that round
C12_WitnessEvicted ==
    /\ lastOp = "seekTo"
    /\ pre.isPlaying
    /\ Len(log) = 1
    /\ log[1].to = "evictor"
    /\ callbacks = <<"evictor">>
    /\ state.currentTime = Minutes(120)

\* normal < medium < high < critical
Rank(severity) ==
    CASE severity = "normal"   -> 0
      [] severity = "medium"   -> 1
      [] severity = "high"     -> 2
      [] severity = "critical" -> 3

\* the window with its most recent height replaced by h
WithLatest(window, h) == [window EXCEPT ![Len(window)] = Reading(h)]

LatestHeight == heightOf(readings[Len(readings)])
PreviousHeight == heightOf(readings[Len(readings) - 1])
PercentChange == heightChangePercent(LatestHeight, PreviousHeight)

\* C16: with the earlier heights held fixed, raising the most recent height
\* never lowers the severity either classifier returns.
C16_ClassifierMonotone ==
    Len(readings) >= 1 =>
        \A h \in Heights :
            h >= LatestHeight =>
                /\ Rank(detectTsunami([readings |-> WithLatest(readings, h)]).severity)
                      >= Rank(detectTsunami([readings |-> readings]).severity)
                /\ Rank(detectTsunamiStatus([readings |-> WithLatest(readings, h)]).severity)
                      >= Rank(detectTsunamiStatus([readings |-> readings]).severity)

\* the page found 2.2 m, 2.0 m, 1.9 m medium (mean above 2 m, within the
\* slack); with 2.6 m for the last, a 30% rise, it stays medium, and with
\* 4.5 m it is high
C16_Witness ==
    /\ verdict = [by |-> "detectTsunami", result |-> Verdict(TRUE, "medium")]
    /\ readings = <<Reading(Metres(2, 2)), Reading(Metres(2, 0)), Reading(Metres(1, 9))>>
    /\ detectTsunami([readings |-> WithLatest(readings, Metres(2, 6))]).severity = "medium"
    /\ detectTsunami([readings |-> WithLatest(readings, Metres(4, 5))]).severity = "high"

\* C17: for every window of at least 2 readings, if currentHeight > 4.0 m,
\* or currentHeight > 2.5 m and percentChange > 30%, both classifiers return
\* high or critical.
C17_HighRule ==
    (/\ Len(readings) >= 2
     /\ \/ LatestHeight > Metres(4, 0)
        \/ (LatestHeight > Metres(2, 5) /\ RatGreater(PercentChange, 30)))
    => /\ detectTsunami([readings |-> readings]).severity \in {"high", "critical"}
       /\ detectTsunamiStatus([readings |-> readings]).severity \in {"high", "critical"}

\* what holds instead: the rule as stated for windows of at least 3
\* readings, and the height thresholds alone for exactly 2
C17_HighRuleFromThree ==
    (/\ Len(readings) >= 2
     /\ \/ LatestHeight > Metres(4, 0)
        \/ (/\ Len(readings) >= 3
            /\ LatestHeight > Metres(2, 5)
            /\ RatGreater(PercentChange, 30)))
    => /\ detectTsunami([readings |-> readings]).severity \in {"high", "critical"}
       /\ detectTsunamiStatus([readings |-> readings]).severity \in {"high", "critical"}

\* the mean of the last up-to-4 heights exceeds 2 m
MeanAboveTwo ==
    LET heights == [i \in 1..Len(sliceLast(readings, 4)) |->
                       heightOf(sliceLast(readings, 4)[i])]
    IN  sum(heights) > Metres(2, 0) * Len(heights)

\* the last up-to-4 heights are non-decreasing within 10% slack
NonDecreasing ==
    LET heights == [i \in 1..Len(sliceLast(readings, 4)) |->
                       heightOf(sliceLast(readings, 4)[i])]
    IN  \A i \in 2..Len(heights) : 10 * heights[i] >= 9 * heights[i - 1]

MediumAsStated ==
    \/ LatestHeight > Metres(2, 5)
    \/ RatGreater(PercentChange, 15)
    \/ (MeanAboveTwo /\ NonDecreasing)

\* C18: for every window of at least 2 readings that is neither critical nor
\* high, the classifier returns medium exactly when currentHeight > 2.5 m,
\* or percentChange > 15%, or the mean of the last up-to-4 heights exceeds
\* 2 m while they are non-decreasing within 10% slack; otherwise it returns
\* normal with isTsunami false.
C18_MediumRule ==
    Len(readings) >= 2 =>
        \A v \in {detectTsunami([readings |-> readings]),
                   detectTsunamiStatus([readings |-> readings])} :
            v.severity \notin {"critical", "high"} =>
                v = IF MediumAsStated THEN Verdict(TRUE, "medium")
                                      ELSE Verdict(FALSE, "normal")

\* the object the manager's statusCache refers to
CachedStatuses == IF statusCache = NULL THEN EmptyObject ELSE heap[statusCache]

\* C19: when the updateBuoyStatus calls a refresh started for N distinct
\* buoys have all completed, the status cache holds an entry for each of
\* the N buoys, whatever the cache was before.
C19_RefreshCachesAll ==
    (cacheOp.op = "update" /\ microtasks = <<>>) =>
        \A b \in cacheOp.buoys : b \in DOMAIN CachedStatuses

\* what holds instead: the buoy updated last has its entry
C19_RefreshCachesLast ==
    cacheOp.op = "update" => cacheOp.buoy \in DOMAIN CachedStatuses

\* C20: right after an updateBuoyStatus call for a buoy, its
\* consecutiveAlertsCount is the number of alert updates it has had in a row,
\* however much time passed between them, and 0 after a non-alert update.
C20_ConsecutiveAlerts ==
    cacheOp.op = "update" =>
        /\ cacheOp.buoy \in DOMAIN CachedStatuses
        /\ CachedStatuses[cacheOp.buoy].consecutiveAlertsCount = streak[cacheOp.buoy]

\* what holds instead: the count is 0 after a non-alert update, and at
\* least 1 and at most the run of alerts after an alert update
C20_ConsecutiveAlertsAtMost ==
    cacheOp.op = "update" =>
        LET count == CachedStatuses[cacheOp.buoy].consecutiveAlertsCount
        IN  IF CachedStatuses[cacheOp.buoy].isTsunami
            THEN 1 <= count /\ count <= streak[cacheOp.buoy]
            ELSE count = 0 /\ streak[cacheOp.buoy] = 0

\* C25: for every window of readings detectTsunamiStatus (the route) and
\* detectTsunami without a simulation time (the page) return the same
\* isTsunami flag and the same severity.
C25_ClassifiersAgree ==
    detectTsunamiStatus([readings |-> readings]) = detectTsunami([readings |-> readings])

\* what holds instead: the route never ranks a window below the page, and
\* they differ only between normal and medium on windows of 3 or more
C25_RouteAtLeastPage ==
    LET server == detectTsunamiStatus([readings |-> readings])
        client == detectTsunami([readings |-> readings])
    IN  \/ server = client
        \/ /\ Len(readings) >= 3
           /\ server.severity = "medium"
           /\ client.severity = "normal"

\* C27: nextEvent() and previousEvent() each leave currentEvent one of the
\* three catalog ids, whatever the state they are called in.
C27_EventStaysInCatalog ==
    lastOp \in {"nextEvent", "previousEvent"} => includes(events, state.currentEvent)

\* what holds instead: nextEvent() always lands in the catalog, and so does
\* previousEvent() from a catalog id
C27_NextEventInCatalog ==
    /\ includes(events, nextEvent(Mgr).state.currentEvent)
    /\ includes(events, state.currentEvent) =>
          includes(events, previousEvent(Mgr).state.currentEvent)

\* C28: each control call and each tick delivers exactly one notification to
\* every subscriber, and it carries the state the operation ends in.
C28_OneFinalNotification ==
    Publishes =>
        \A k \in 1..Len(callbacks) :
            /\ TimesInvoked(log, callbacks[k]) = 1
            /\ \A i \in InvocationsOf(callbacks[k]) : log[i].snap = state

\* what holds instead: one or two notifications each, the last one final
C28_AtMostTwoNotifications ==
    Publishes =>
        \A k \in 1..Len(callbacks) :
            /\ TimesInvoked(log, callbacks[k]) \in {1, 2}
            /\ LastSnapshotTo(callbacks[k]) = state
            /\ TimesInvoked(log, callbacks[k]) = 2 =>
                  \/ lastOp = "play" /\ state.currentTime = 0
                  \/ lastOp = "tick" /\ state.currentTime = state.totalDuration

\* C29: updateBuoyStatus(id, ...) changes only the entry of buoy id: every
\* other entry in the status cache is still there, unchanged, after the
\* call, whatever time has passed since the cache was written.
C29_UpdateFrame ==
    [][cacheOp'.op = "update" =>
          \A b \in DOMAIN CachedStatuses \ {cacheOp'.buoy} :
              /\ b \in DOMAIN CachedStatuses'
              /\ CachedStatuses'[b] = CachedStatuses[b]]_vars

\* what holds instead: the frame is kept by a call that was started while
\* the cache was fresh
C29_UpdateFrameWhenFresh ==
    [][(cacheOp'.op = "update" /\ Head(microtasks).got # NULL) =>
          \A b \in DOMAIN heap[Head(microtasks).got] \ {cacheOp'.buoy} :
              /\ b \in DOMAIN CachedStatuses'
              /\ CachedStatuses'[b] = heap[Head(microtasks).got][b]]_vars

\* C30: isPlaying and isPaused are never both true, in the state and in
\* every snapshot delivered.
C30_FlagsExclusive ==
    \A s \in Snapshots : ~(s.isPlaying /\ s.isPaused)

\* play() on a paused clock: the subscriber saw Playing with isPaused cleared
C30_Witness ==
    /\ lastOp = "play"
    /\ pre.isPaused
    /\ state.isPlaying
    /\ Len(log) > 0
    /\ log[Len(log)].snap.isPlaying
    /\ ~log[Len(log)].snap.isPaused

\* C26: in every reachable state, cleanup() included, exactly one tick timer
\* is active when isPlaying is true and none when it is false; play() and
\* restart() while playing never create a second timer.
C26_TimerMatchesPlaying ==
    /\ state.isPlaying => (intervalId # NULL /\ timers = {intervalId})
    /\ ~state.isPlaying => (intervalId = NULL /\ timers = {})

\* what the code keeps: never more than one timer, and none while isPlaying
\* is false
C26_AtMostOneTimer ==
    /\ timers = IF intervalId = NULL THEN {} ELSE {intervalId}
    /\ ~state.isPlaying => timers = {}

\* the last write of each cache is still within its time to live
DataFresh == dataWrite # NO_WRITE /\ now - dataWrite.at < 5 * 60 * 1000

StatusFresh == statusWrite # NO_WRITE /\ now - statusWrite.at < 2 * 60 * 1000

\* C21: getBuoyData() returns the cache written by the most recent setBuoyData
\* if and only if fewer than 5 minutes have passed since that write and no
\* clearCache() came in between, and null otherwise; getBuoyStatus() does the
\* same with 2 minutes after the most recent setBuoyStatus.
C21_CacheFreshness ==
    /\ getBuoyData(Cache, now) = IF DataFresh THEN dataWrite.ref ELSE NULL
    /\ getBuoyStatus(Cache, now) = IF StatusFresh THEN statusWrite.ref ELSE NULL
    /\ cacheOp.op = "hit" => DataFresh /\ response.body = dataWrite.ref
    /\ cacheOp.op = "miss" => ~DataFresh

\* a request served from a data cache two minutes old, when the status cache
\* written with it has just expired
C21_Witness ==
    /\ cacheOp.op = "hit"
    /\ now - dataWrite.at = 2 * 60 * 1000
    /\ statusWrite # NO_WRITE
    /\ getBuoyStatus(Cache, now) = NULL

\* a request is answered at the very end of the data cache's time to live
C21_WitnessExpired ==
    /\ cacheOp.op = "miss"
    /\ dataWrite # NO_WRITE
    /\ now - dataWrite.at = 5 * 60 * 1000

\* C22: when the fetch of GET /api/buoys fails after a cache miss and an
\* earlier setBuoyData had filled the data cache, now older than 5 minutes
\* and not cleared, the response is that stale data with X-Cache-Status
\* STALE, not the 500 error.
C22_StaleServedOnFailure ==
    (cacheOp.op = "failed" /\ dataWrite # NO_WRITE /\ ~DataFresh)
        => (response.cacheStatus = "STALE" /\ response.body = dataWrite.ref)

\* what the catch branch does: STALE exactly when the cache is still within
\* its 5 minutes (another request has filled it meanwhile), 500 otherwise
C22_StaleOnlyWhenFresh ==
    cacheOp.op = "failed" =>
        IF DataFresh
        THEN response.cacheStatus = "STALE" /\ response.body = dataWrite.ref
        ELSE response.status = 500

C22_WitnessStale == cacheOp.op = "failed" /\ response.cacheStatus = "STALE"

\* the drawn wave front has reached the buoy
FrontReached == marker.drawn /\ marker.waveRadius >= buoyDistance * 1000

\* C24: one wave speed throughout: for every distance d and simulated time t
\* the drawn wave front (radius t x 12 km/min) has reached d exactly when the
\* buoy is treated as wave-arrived (t >= calculateWaveArrival), and the
\* popup's distance (arrivalTime x 12 km) equals d.
C24_OneWaveSpeed ==
    marker # NO_MARKER =>
        /\ FrontReached <=> marker.hasWaveArrived
        /\ marker.distanceShown = buoyDistance

\* what the code does: arrival at 200 km/h, the front at 12 km/min (720 km/h),
\* so the front passes the buoy well before it counts as arrived, and the
\* popup shows 3.6 times the distance
C24_TwoWaveSpeeds ==
    marker # NO_MARKER =>
        /\ marker.hasWaveArrived <=> marker.currentTime * 200 >= buoyDistance * 60 * UnitsPerMinute
        /\ marker.hasWaveArrived => FrontReached
        /\ Abs(marker.distanceShown * 10 - buoyDistance * 36) <= 5

C24_WitnessFrontAhead == FrontReached /\ ~marker.hasWaveArrived

\* the scenario of the claim: tohoku_2011 and the station at 36.5N 141.0E
TohokuScenario ==
    /\ scenario.buoyLat = 36500 /\ scenario.buoyLon = 141000
    /\ scenario.epicenterLat = 38297 /\ scenario.epicenterLon = 142373
    /\ scenario.magnitude = 91

\* the reading for ten minutes after the wave's arrival has been picked
SampledTenAfterArrival ==
    /\ TohokuScenario
    /\ closestReading # NO_READING
    /\ closestReading.target = arrivalTimeMinutes(scenario) + 10 * FIXED

\* C23: for tohoku_2011 (38.297N 142.373E, magnitude 9.1) and a station at
\* 36.5N 141.0E the arrival time is a small positive number of minutes (here:
\* under an hour), and the wave series sampled at arrivalTime + 10 min is
\* flagged isTsunamiWave with a height strictly above the ambient sea state.
C23_PrincipalWaveVisible ==
    SampledTenAfterArrival =>
        /\ arrivalTimeMinutes(scenario) > 0
        /\ arrivalTimeMinutes(scenario) < 60 * FIXED
        /\ closestReading.reading.isTsunamiWave
        /\ closestReading.reading.waveHeight > seaState(closestReading.reading.timestamp)

\* what the code does: the arrival time is about 30 minutes, and no reading
\* of the first 40 minutes after it rises above the sea state
C23_NoWaveForFortyMinutes ==
    TohokuScenario =>
        /\ arrivalTimeMinutes(scenario) > 30 * FIXED
        /\ arrivalTimeMinutes(scenario) < 31 * FIXED
        /\ \A i \in 1..Len(tsunamiReadings) :
              tsunamiReadings[i].timestamp - arrivalTimeMinutes(scenario) <= 40 * FIXED
                  => /\ ~tsunamiReadings[i].isTsunamiWave
                     /\ tsunamiReadings[i].waveHeight = seaState(tsunamiReadings[i].timestamp)

C23_WitnessSampled == SampledTenAfterArrival /\ ~closestReading.reading.isTsunamiWave

\* an hour after the arrival the series does show the tsunami
C23_WitnessLateWave ==
    /\ TohokuScenario
    /\ closestReading # NO_READING
    /\ closestReading.target = arrivalTimeMinutes(scenario) + 60 * FIXED
    /\ closestReading.reading.isTsunamiWave
    /\ closestReading.reading.waveHeight > seaState(closestReading.reading.timestamp)

====
